---- MODULE Spec2Model ----
(***************************************************************************)
(* A model of apputils/checkpoint.py: save_checkpoint and load_checkpoint  *)
(* acting on a file system, an in-memory model object and an optimizer.    *)
(*                                                                         *)
(* Python's None is the empty tuple and a present value v is <<v>>, so     *)
(* that an optional value never collides with a value of its own type.     *)
(* A Python dict with optional keys is a record whose DOMAIN varies.       *)
(***************************************************************************)
EXTENDS Integers, Sequences, FiniteSets, TLC

VARIABLES
    fs,          \* the directory: file name -> contents
    model,       \* the caller's model object
    optimizer,   \* the state held by the caller's optimizer object
    scheduler,   \* the caller's CompressionScheduler, if it has one
    best_top1,   \* the best top1 score the caller has seen so far, if any
    pc,          \* where the process is
    call,        \* the arguments of the call in progress (or last made)
    checkpoint,  \* save_checkpoint's local dict `checkpoint`
    ret,         \* what the last call returned to its caller
    log,         \* the lines the last call gave to msglogger.info
    effects,     \* the collaborator calls load_checkpoint made, in order
    exc,         \* the exception that left the last call, if one did
    exitcode,    \* the exit status of the process once it has terminated
    hist,        \* per name: the inputs of the last completed saves
    ncalls       \* the number of calls made to the two functions so far

vars == <<fs, model, optimizer, scheduler, best_top1, pc, call, checkpoint,
          ret, log, effects, exc, exitcode, hist, ncalls>>

----------------------------------------------------------------------------
(* Bounds and value domains *)

MaxCalls == 2

None == <<>>
Some(v) == <<v>>

Epochs == {0, 5}
Archs == {"resnet18"}
StateDicts == {"w0", "w1"}
OptStates == {"o0", "o1"}
SchedStates == {"s1"}
Recipes == {"r1"}
Top1s == {71}
NameStrings == {"run1"}

Names == {None} \cup {Some(s) : s \in NameStrings}
Schedulers == {None} \cup {Some(x) : x \in SchedStates}
Handlers == {"none", "Exception", "BaseException"}

----------------------------------------------------------------------------
(* File names and file contents *)

Filename(name) ==
    IF name = None THEN "checkpoint.pth.tar" ELSE name[1] \o "_checkpoint.pth.tar"

FilenameBest(name) ==
    IF name = None THEN "best.pth.tar" ELSE name[1] \o "_best.pth.tar"

Files == {Filename(n) : n \in Names} \cup {FilenameBest(n) : n \in Names}

Absent == <<>>
Partial == <<[truncated |-> TRUE]>>
Complete(rec) == <<rec>>

IsFile(dir, f) == dir[f] # Absent

----------------------------------------------------------------------------
(* save_checkpoint *)

\* Faulty variants of BuildCheckpoint: one stores compression_sched even for
\* scheduler=None, the other stores thinning_recipe only under a scheduler
BuildCheckpoint_SchedAlways(epoch, arch, m, opt, sched, top1) ==
    LET c0 == [epoch |-> epoch, arch |-> arch, state_dict |-> m.state_dict]
        c1 == IF top1 # None THEN c0 @@ ("best_top1" :> top1[1]) ELSE c0
        c2 == c1 @@ ("optimizer" :> opt)
        c3 == c2 @@ ("compression_sched" :>
                        IF sched # None THEN sched[1] ELSE "None")
        c4 == IF m.thinning_recipe # None
              THEN c3 @@ ("thinning_recipe" :> m.thinning_recipe[1]) ELSE c3
    IN  c4

BuildCheckpoint_RecipeUnderSched(epoch, arch, m, opt, sched, top1) ==
    LET c0 == [epoch |-> epoch, arch |-> arch, state_dict |-> m.state_dict]
        c1 == IF top1 # None THEN c0 @@ ("best_top1" :> top1[1]) ELSE c0
        c2 == c1 @@ ("optimizer" :> opt)
        c3 == IF sched # None
              THEN IF m.thinning_recipe # None
                   THEN c2 @@ ("compression_sched" :> sched[1])
                           @@ ("thinning_recipe" :> m.thinning_recipe[1])
                   ELSE c2 @@ ("compression_sched" :> sched[1])
              ELSE c2
    IN  c3

BuildCheckpoint(epoch, arch, m, opt, sched, top1) ==
    LET c0 == [epoch |-> epoch, arch |-> arch, state_dict |-> m.state_dict]
        c1 == IF top1 # None THEN c0 @@ ("best_top1" :> top1[1]) ELSE c0
        c2 == c1 @@ ("optimizer" :> opt)
        c3 == IF sched # None
              THEN c2 @@ ("compression_sched" :> sched[1]) ELSE c2
        c4 == IF m.thinning_recipe # None
              THEN c3 @@ ("thinning_recipe" :> m.thinning_recipe[1]) ELSE c3
    IN  c4

\* Faulty variant of TorchSaveOpen: both files are opened up front
TorchSaveOpen_Both(dir, name) ==
    [dir EXCEPT ![Filename(name)] = Partial, ![FilenameBest(name)] = Partial]

TorchSaveOpen(dir, name) == [dir EXCEPT ![Filename(name)] = Partial]

TorchSaveClose(dir, name, rec) == [dir EXCEPT ![Filename(name)] = Complete(rec)]

\* Faulty variant of NeedsCopy: the copy is made whatever is_best is
NeedsCopy_Always(is_best) == TRUE

NeedsCopy(is_best) == is_best

CopyOpen(dir, dst) == [dir EXCEPT ![dst] = Partial]

\* Faulty variant of CopyClose: nothing is copied into the opened file
CopyClose_Skip(dir, src, dst) == dir

CopyClose(dir, src, dst) == [dir EXCEPT ![dst] = dir[src]]

Inputs(c) ==
    [epoch |-> c.epoch, arch |-> c.arch, scheduler |-> c.scheduler,
     best_top1 |-> c.best_top1, state_dict |-> c.state_dict,
     thinning_recipe |-> c.thinning_recipe, optimizer |-> c.optimizer]

Completed(h, c) ==
    [h EXCEPT ![c.name] =
        [last |-> Some(Inputs(c)),
         best |-> IF c.is_best THEN Some(Inputs(c)) ELSE @.best]]

SaveBegin(epoch, arch, is_best, name) ==
    /\ pc = "idle"
    /\ ncalls < MaxCalls
    /\ ncalls' = ncalls + 1
    /\ call' = [kind |-> "save", epoch |-> epoch, arch |-> arch,
                scheduler |-> scheduler, best_top1 |-> best_top1,
                is_best |-> is_best, name |-> name,
                state_dict |-> model.state_dict,
                thinning_recipe |-> model.thinning_recipe,
                optimizer |-> optimizer,
                pre_best |-> fs[FilenameBest(name)], at |-> "idle"]
    /\ log' = <<"Saving checkpoint">>
    /\ checkpoint' = Some(BuildCheckpoint(epoch, arch, model, optimizer,
                                          scheduler, best_top1))
    /\ fs' = TorchSaveOpen(fs, name)
    /\ pc' = "writing"
    /\ ret' = None
    /\ effects' = <<>>
    /\ UNCHANGED <<model, optimizer, scheduler, best_top1, exc, exitcode, hist>>

TorchSaveDone ==
    /\ pc = "writing"
    /\ fs' = TorchSaveClose(fs, call.name, checkpoint[1])
    /\ pc' = "written"
    /\ UNCHANGED <<model, optimizer, scheduler, best_top1, call, checkpoint,
                   ret, log, effects, exc, exitcode, hist, ncalls>>

CopyBegin ==
    /\ pc = "written"
    /\ NeedsCopy(call.is_best)
    /\ fs' = CopyOpen(fs, FilenameBest(call.name))
    /\ pc' = "copying"
    /\ UNCHANGED <<model, optimizer, scheduler, best_top1, call, checkpoint,
                   ret, log, effects, exc, exitcode, hist, ncalls>>

CopyDone ==
    /\ pc = "copying"
    /\ fs' = CopyClose(fs, Filename(call.name), FilenameBest(call.name))
    /\ pc' = "returned"
    /\ checkpoint' = None
    /\ hist' = Completed(hist, call)
    /\ UNCHANGED <<model, optimizer, scheduler, best_top1, call, ret, log,
                   effects, exc, exitcode, ncalls>>

SaveReturn ==
    /\ pc = "written"
    /\ ~NeedsCopy(call.is_best)
    /\ pc' = "returned"
    /\ checkpoint' = None
    /\ hist' = Completed(hist, call)
    /\ UNCHANGED <<fs, model, optimizer, scheduler, best_top1, call, ret, log,
                   effects, exc, exitcode, ncalls>>

----------------------------------------------------------------------------
(* Collaborators of load_checkpoint *)

\* distiller.CompressionScheduler(model) followed by load_state_dict(state)
CompressionScheduler(m, state) ==
    [state |-> state, zeros_mask_dict |-> <<"masks", state>>]

\* distiller.execute_thinning_recipe: changes the model's structure, and
\* with it the shapes and values of its parameters (sd is what they become)
ExecuteThinningRecipe(m, zeros_mask_dict, recipe, sd) ==
    [m EXCEPT !.structure = Some(recipe), !.state_dict = sd]

ModelLoadStateDict(m, sd) == [m EXCEPT !.state_dict = sd]

\* Faulty variant of ExitCall: an ordinary error is raised instead
ExitCall_RaiseOSError(code) == [type |-> "OSError", code |-> code]

\* The builtin exit(code) raises SystemExit(code)
ExitCall(code) == [type |-> "SystemExit", code |-> code]

ExitStatus == 1

\* torch.load on a file that does not hold a whole pickle
UnpicklingError == [type |-> "UnpicklingError", code |-> 1]

\* The classes below Exception; SystemExit derives from BaseException only
ExceptionSubclasses == {"OSError", "KeyError", "UnpicklingError"}

\* Whether the caller's handler around the call (none, `except Exception`
\* or `except BaseException`) stops the exception e
Caught(handler, e) ==
    \/ handler = "BaseException"
    \/ handler = "Exception" /\ e.type \in ExceptionSubclasses

\* The status the interpreter exits with when e reaches the top level
ProcessExitCode(e) == IF e.type = "SystemExit" THEN e.code ELSE 1

----------------------------------------------------------------------------
(* load_checkpoint *)

\* Faulty variant of StartEpoch: resumes at the saved epoch
StartEpoch_NoIncrement(rec) == rec.epoch

StartEpoch(rec) == rec.epoch + 1

HasSched(rec) == "compression_sched" \in DOMAIN rec

\* Faulty variant of ThinningApplies: the recipe test is not nested
ThinningApplies_IgnoreSched(rec) == "thinning_recipe" \in DOMAIN rec

ThinningApplies(rec) == HasSched(rec) /\ "thinning_recipe" \in DOMAIN rec

LoadedScheduler(m, rec) ==
    IF HasSched(rec) THEN Some(CompressionScheduler(m, rec.compression_sched))
    ELSE None

Masks(m, rec) ==
    IF HasSched(rec)
    THEN CompressionScheduler(m, rec.compression_sched).zeros_mask_dict
    ELSE <<"masks", "None">>

\* Faulty variant of LoadedModel: the state_dict is loaded before thinning
LoadedModel_LoadBeforeThinning(m, rec, sd) ==
    LET m1 == ModelLoadStateDict(m, rec.state_dict)
    IN  IF ThinningApplies(rec)
        THEN ExecuteThinningRecipe(m1, Masks(m, rec), rec.thinning_recipe, sd)
        ELSE m1

LoadedModel(m, rec, sd) ==
    LET m1 == IF ThinningApplies(rec)
              THEN ExecuteThinningRecipe(m, Masks(m, rec), rec.thinning_recipe, sd)
              ELSE m
    IN  ModelLoadStateDict(m1, rec.state_dict)

\* Faulty variant of LoadedOptimizer: the saved state is restored
LoadedOptimizer_Restore(opt, optArg, rec) ==
    IF optArg # None THEN rec.optimizer ELSE opt

LoadedOptimizer(opt, optArg, rec) == opt

LoadLog(rec) ==
    <<"=> loading checkpoint">>
    \o (IF "best_top1" \in DOMAIN rec THEN <<"   best top@1">> ELSE <<>>)
    \o (IF HasSched(rec)
        THEN <<"Loaded compression schedule from checkpoint">>
        ELSE <<"Warning: compression schedule data does not exist in the checkpoint",
               "=> loaded checkpoint">>)
    \o (IF ThinningApplies(rec)
        THEN <<"Loaded a thinning recipe from the checkpoint">> ELSE <<>>)

LoadEffects(rec) ==
    <<"torch.load">>
    \o (IF HasSched(rec)
        THEN <<"CompressionScheduler", "scheduler.load_state_dict">> ELSE <<>>)
    \o (IF ThinningApplies(rec) THEN <<"execute_thinning_recipe">> ELSE <<>>)
    \o <<"model.load_state_dict">>

LoadCall(chkpt_file, optArg) ==
    [kind |-> "load", chkpt_file |-> chkpt_file, optimizer |-> optArg,
     existed |-> IsFile(fs, chkpt_file),
     pre_model |-> model, pre_optimizer |-> optimizer, at |-> "idle"]

\* An exception leaves load_checkpoint: the caller's handler stops it, or the
\* interpreter ends the process
Raise(handler, e) ==
    /\ exc' = Some(e)
    /\ IF Caught(handler, e)
       THEN /\ pc' = "returned"
            /\ exitcode' = None
       ELSE /\ pc' = "terminated"
            /\ exitcode' = Some(ProcessExitCode(e))

LoadOk(chkpt_file, optArg) ==
    /\ pc = "idle"
    /\ ncalls < MaxCalls
    /\ ncalls' = ncalls + 1
    /\ IsFile(fs, chkpt_file)
    /\ fs[chkpt_file] # Partial
    /\ LET rec == fs[chkpt_file][1]
       IN  /\ \E sd \in StateDicts : model' = LoadedModel(model, rec, sd)
           /\ optimizer' = LoadedOptimizer(optimizer, optArg, rec)
           /\ ret' = Some([model |-> model',
                           compression_scheduler |-> LoadedScheduler(model, rec),
                           start_epoch |-> StartEpoch(rec)])
           /\ log' = LoadLog(rec)
           /\ effects' = LoadEffects(rec)
    /\ call' = LoadCall(chkpt_file, optArg)
    /\ pc' = "returned"
    /\ UNCHANGED <<fs, scheduler, best_top1, checkpoint, exc, exitcode, hist>>

LoadMissing(chkpt_file, optArg, handler) ==
    /\ pc = "idle"
    /\ ncalls < MaxCalls
    /\ ncalls' = ncalls + 1
    /\ ~IsFile(fs, chkpt_file)
    /\ call' = LoadCall(chkpt_file, optArg) @@ ("handler" :> handler)
    /\ log' = <<"Error: no checkpoint found">>
    /\ effects' = <<>>
    /\ ret' = None
    /\ Raise(handler, ExitCall(ExitStatus))
    /\ UNCHANGED <<fs, model, optimizer, scheduler, best_top1, checkpoint, hist>>

LoadCorrupt(chkpt_file, optArg, handler) ==
    /\ pc = "idle"
    /\ ncalls < MaxCalls
    /\ ncalls' = ncalls + 1
    /\ fs[chkpt_file] = Partial
    /\ call' = LoadCall(chkpt_file, optArg) @@ ("handler" :> handler)
    /\ log' = <<"=> loading checkpoint">>
    /\ effects' = <<"torch.load">>
    /\ ret' = None
    /\ Raise(handler, UnpicklingError)
    /\ UNCHANGED <<fs, model, optimizer, scheduler, best_top1, checkpoint, hist>>

----------------------------------------------------------------------------
(* The caller and the process *)

NoCall == [kind |-> "none"]

\* The model objects the first process may hold when it first calls in: any
\* parameters, pruned (carrying a thinning recipe) or not
TrainedModels ==
    [state_dict : StateDicts,
     thinning_recipe : {None} \cup {Some(x) : x \in Recipes},
     structure : {None}]

\* What a later process constructs before it calls load_checkpoint: a model
\* with newly initialised parameters and no recipe, and a new optimizer
FreshModels ==
    [state_dict : StateDicts, thinning_recipe : {None}, structure : {None}]

FreshOptimizer == "o0"

\* The training loop between two calls: a step moves the parameters and the
\* optimizer state together, and pruning may attach a thinning recipe
TrainStep(sd, opt) ==
    IF sd = "w0" THEN <<"w1", "o1">> ELSE <<"w0", "o0">>

Train ==
    /\ pc = "returned"
    /\ ncalls < MaxCalls
    /\ \E r \in {model.thinning_recipe} \cup {Some(x) : x \in Recipes} :
         model' = [model EXCEPT !.state_dict = TrainStep(@, optimizer)[1],
                                !.thinning_recipe = r]
    /\ optimizer' = TrainStep(model.state_dict, optimizer)[2]
    /\ best_top1' \in {best_top1} \cup {Some(t) : t \in Top1s}
    /\ pc' = "idle"
    /\ call' = NoCall
    /\ ret' = None
    /\ log' = <<>>
    /\ effects' = <<>>
    /\ exc' = None
    /\ UNCHANGED <<fs, scheduler, checkpoint, exitcode, hist, ncalls>>

\* The process dies while a file is open or between the two writes
Crash ==
    /\ pc \in {"writing", "written", "copying"}
    /\ pc' = "crashed"
    /\ call' = [call EXCEPT !.at = pc]
    /\ checkpoint' = None
    /\ UNCHANGED <<fs, model, optimizer, scheduler, best_top1, ret, log,
                   effects, exc, exitcode, hist, ncalls>>

\* A new process over the same directory
Start ==
    /\ pc \in {"terminated", "crashed"}
    /\ ncalls < MaxCalls
    /\ model' \in FreshModels
    /\ optimizer' = FreshOptimizer
    /\ scheduler' \in Schedulers
    /\ best_top1' = None
    /\ pc' = "idle"
    /\ call' = NoCall
    /\ checkpoint' = None
    /\ ret' = None
    /\ log' = <<>>
    /\ effects' = <<>>
    /\ exc' = None
    /\ exitcode' = None
    /\ UNCHANGED <<fs, hist, ncalls>>

Init ==
    /\ fs = [f \in Files |-> Absent]
    /\ model \in TrainedModels
    /\ optimizer \in OptStates
    /\ scheduler \in Schedulers
    /\ best_top1 \in {None} \cup {Some(t) : t \in Top1s}
    /\ pc = "idle"
    /\ call = NoCall
    /\ checkpoint = None
    /\ ret = None
    /\ log = <<>>
    /\ effects = <<>>
    /\ exc = None
    /\ exitcode = None
    /\ hist = [n \in Names |-> [last |-> None, best |-> None]]
    /\ ncalls = 0

Save ==
    \E epoch \in Epochs, arch \in Archs, is_best \in BOOLEAN, name \in Names :
        SaveBegin(epoch, arch, is_best, name)

Load ==
    \E f \in Files, optArg \in {None, Some("optimizer")}, h \in Handlers :
        \/ LoadOk(f, optArg)
        \/ LoadMissing(f, optArg, h)

LoadTruncated ==
    \E f \in Files, optArg \in {None, Some("optimizer")}, h \in Handlers :
        LoadCorrupt(f, optArg, h)

Next ==
    \/ Save
    \/ TorchSaveDone
    \/ CopyBegin
    \/ CopyDone
    \/ SaveReturn
    \/ Load
    \/ Train
    \/ Start

Spec == Init /\ [][Next]_vars

NextCrash ==
    \/ Next
    \/ Crash
    \/ LoadTruncated

SpecCrash == Init /\ [][NextCrash]_vars

----------------------------------------------------------------------------
(* Vocabulary of the properties *)

InSeq(x, seq) == \E i \in 1..Len(seq) : seq[i] = x

\* load_checkpoint has just returned its triple to the caller
LoadReturned == pc = "returned" /\ call.kind = "load" /\ ret # None

\* save_checkpoint has just returned
SaveReturned == pc = "returned" /\ call.kind = "save"

\* The record the file named by the last load holds
LoadedRecord == fs[call.chkpt_file][1]

\* The inputs of the completed save_checkpoint call that a file's contents
\* come from, by the history of completed calls: the last call of its name
\* for a primary file, the last is_best call of its name for a best file
WrittenBy(f) ==
    IF \E n \in Names : Filename(n) = f
    THEN hist[CHOOSE n \in Names : Filename(n) = f].last
    ELSE hist[CHOOSE n \in Names : FilenameBest(n) = f].best

\* The record a completed call with these inputs hands to torch.save
RecordOf(inp) ==
    BuildCheckpoint(inp.epoch, inp.arch,
                    [state_dict |-> inp.state_dict,
                     thinning_recipe |-> inp.thinning_recipe],
                    inp.optimizer, inp.scheduler, inp.best_top1)

WarningLine == "Warning: compression schedule data does not exist in the checkpoint"

----------------------------------------------------------------------------
(* Properties *)

\* C1: round trip. When load_checkpoint returns, the model's state_dict (and
\* that of the model it returns) is the state_dict the saved model had when
\* the save_checkpoint call that wrote the file was made.
C1_RoundTrip ==
    LoadReturned =>
        /\ WrittenBy(call.chkpt_file) # None
        /\ model.state_dict = WrittenBy(call.chkpt_file)[1].state_dict
        /\ ret[1].model.state_dict = WrittenBy(call.chkpt_file)[1].state_dict

\* A load that ran the thinning recipe and changed the model's parameters
C1_Witness ==
    /\ LoadReturned
    /\ InSeq("execute_thinning_recipe", effects)
    /\ call.pre_model.state_dict # model.state_dict
    /\ model.state_dict = WrittenBy(call.chkpt_file)[1].state_dict

\* C2: on every successful return of load_checkpoint, start_epoch is the
\* epoch given to the save_checkpoint call that wrote the file, plus one.
C2_StartEpoch ==
    LoadReturned =>
        ret[1].start_epoch = WrittenBy(call.chkpt_file)[1].epoch + 1

\* A load of a record saved at epoch 5 with schedule, recipe and best_top1
C2_Witness ==
    /\ LoadReturned
    /\ WrittenBy(call.chkpt_file)[1].epoch = 5
    /\ ret[1].start_epoch = 6
    /\ HasSched(LoadedRecord)
    /\ "thinning_recipe" \in DOMAIN LoadedRecord
    /\ "best_top1" \in DOMAIN LoadedRecord

\* C3 as stated: when chkpt_file is not an existing file, load_checkpoint
\* ends the process with exit status 1 and raises nothing a caller can catch,
\* returns nothing, and leaves the model as it was: no scheduler built, no
\* recipe executed, no state_dict loaded.
C3_Original ==
    (call.kind = "load" /\ ~call.existed /\ pc \in {"returned", "terminated"}) =>
        /\ pc = "terminated"
        /\ exitcode = Some(1)
        /\ ret = None
        /\ model = call.pre_model
        /\ effects = <<>>

\* C3 amended: when chkpt_file is not an existing file, load_checkpoint
\* raises SystemExit(1) and nothing else happens: it returns nothing and the
\* model is as it was (no scheduler built, no recipe executed, no state_dict
\* loaded). SystemExit is not an Exception, so under a caller with no handler
\* or with `except Exception` the process ends with exit status 1; only a
\* handler for SystemExit or BaseException keeps the process running.
C3_MissingFileExits ==
    (call.kind = "load" /\ ~call.existed /\ pc \in {"returned", "terminated"}) =>
        /\ exc = Some([type |-> "SystemExit", code |-> 1])
        /\ ret = None
        /\ model = call.pre_model
        /\ effects = <<>>
        /\ call.handler \in {"none", "Exception"} =>
               (pc = "terminated" /\ exitcode = Some(1))
        /\ call.handler = "BaseException" =>
               (pc = "returned" /\ exitcode = None)

\* A missing file, under a caller that catches Exception, other files existing
C3_Witness ==
    /\ call.kind = "load"
    /\ ~call.existed
    /\ call.handler = "Exception"
    /\ pc = "terminated"
    /\ exitcode = Some(1)
    /\ \E f \in Files : IsFile(fs, f)

\* C4: when save_checkpoint returns from a call with is_best=True, the best
\* file of the call's name holds exactly what the primary file of that name
\* holds, and that is the record of this call.
C4_BestIdentical ==
    (SaveReturned /\ call.is_best) =>
        /\ fs[FilenameBest(call.name)] = fs[Filename(call.name)]
        /\ fs[Filename(call.name)] = Complete(RecordOf(Inputs(call)))

\* An is_best save under a name, over a best file that held something else
C4_Witness ==
    /\ SaveReturned
    /\ call.is_best
    /\ call.name # None
    /\ IsFile(fs, FilenameBest(call.name))
    /\ call.pre_best # Absent
    /\ call.pre_best # fs[FilenameBest(call.name)]

\* C5: when the file was written by a save_checkpoint call with
\* scheduler=None, its record has no compression_sched key, and
\* load_checkpoint returns None as the scheduler, logs the warning, builds no
\* scheduler, and still loads the record's state_dict into the model.
C5_NoScheduler ==
    (LoadReturned /\ WrittenBy(call.chkpt_file)[1].scheduler = None) =>
        /\ ~HasSched(LoadedRecord)
        /\ ret[1].compression_scheduler = None
        /\ InSeq(WarningLine, log)
        /\ ~InSeq("CompressionScheduler", effects)
        /\ InSeq("model.load_state_dict", effects)
        /\ model.state_dict = LoadedRecord.state_dict

\* Such a load, into a model whose parameters differed from the record's
C5_Witness ==
    /\ LoadReturned
    /\ WrittenBy(call.chkpt_file)[1].scheduler = None
    /\ ret[1].compression_scheduler = None
    /\ call.pre_model.state_dict # LoadedRecord.state_dict

\* C6: once save_checkpoint has written the primary file, its record has a
\* thinning_recipe key exactly when the model had a thinning_recipe attribute
\* at the call, whether or not a scheduler was given; the value is the
\* model's recipe.
C6_RecipeIffAttribute ==
    (call.kind = "save" /\ pc \in {"written", "copying", "returned"}) =>
        LET rec == fs[Filename(call.name)][1]
        IN  /\ ("thinning_recipe" \in DOMAIN rec) <=> (call.thinning_recipe # None)
            /\ call.thinning_recipe # None =>
                   rec.thinning_recipe = call.thinning_recipe[1]

\* A model with a recipe saved with scheduler=None: the record has the recipe
C6_Witness ==
    /\ SaveReturned
    /\ call.thinning_recipe # None
    /\ call.scheduler = None
    /\ "thinning_recipe" \in DOMAIN fs[Filename(call.name)][1]
    /\ ~HasSched(fs[Filename(call.name)][1])

\* C7 as stated: after a crash between the two writes of an is_best call, the
\* best file is absent or holds a complete checkpoint, never a truncated one.
C7_Original ==
    (pc = "crashed" /\ call.at = "written" /\ call.is_best) =>
        fs[FilenameBest(call.name)] # Partial

\* C7 amended: after a crash between the two writes of an is_best call, the
\* primary file is complete and the best file is exactly what it was when the
\* call began: the call has written nothing to it.
C7_BestUntouched ==
    (pc = "crashed" /\ call.at = "written" /\ call.is_best) =>
        /\ fs[FilenameBest(call.name)] = call.pre_best
        /\ IsFile(fs, Filename(call.name))
        /\ fs[Filename(call.name)] # Partial

\* A crash between the writes that leaves a stale, complete best file
C7_Witness ==
    /\ pc = "crashed"
    /\ call.at = "written"
    /\ call.is_best
    /\ IsFile(fs, FilenameBest(call.name))
    /\ fs[FilenameBest(call.name)] # Partial
    /\ fs[FilenameBest(call.name)] # fs[Filename(call.name)]

\* C8: load_checkpoint executes the thinning recipe exactly when the record
\* has both compression_sched and thinning_recipe; without compression_sched
\* it builds no scheduler and leaves the model's structure alone, even when
\* the record has a thinning_recipe.
C8_ThinningIffBoth ==
    LoadReturned =>
        /\ InSeq("execute_thinning_recipe", effects)
             <=> (HasSched(LoadedRecord) /\ "thinning_recipe" \in DOMAIN LoadedRecord)
        /\ InSeq("execute_thinning_recipe", effects)
             => model.structure = Some(LoadedRecord.thinning_recipe)
        /\ ~HasSched(LoadedRecord) =>
             /\ ~InSeq("CompressionScheduler", effects)
             /\ ret[1].compression_scheduler = None
             /\ model.structure = call.pre_model.structure

\* A record with a thinning_recipe but no compression_sched, loaded
C8_Witness ==
    /\ LoadReturned
    /\ ~HasSched(LoadedRecord)
    /\ "thinning_recipe" \in DOMAIN LoadedRecord
    /\ model.structure = None

C10_LatestAndBest ==
    /\ (SaveReturned /\ ~call.is_best) =>
           fs[FilenameBest(call.name)] = call.pre_best
    /\ pc \in {"idle", "returned", "terminated"} =>
         \A n \in Names :
            /\ fs[Filename(n)] =
                 IF hist[n].last = None THEN Absent
                 ELSE Complete(RecordOf(hist[n].last[1]))
            /\ fs[FilenameBest(n)] =
                 IF hist[n].best = None THEN Absent
                 ELSE Complete(RecordOf(hist[n].best[1]))

\* A save with is_best=False after an is_best save: the best file is stale
C10_Witness ==
    /\ SaveReturned
    /\ ~call.is_best
    /\ hist[call.name].best # None
    /\ hist[call.name].best # hist[call.name].last
    /\ fs[FilenameBest(call.name)] # fs[Filename(call.name)]

====
